---- MODULE Spec2Model ----
(***************************************************************************)
(* Model of the columnar storage core: the HybridCache (src/src/cache.rs), *)
(* the Prefetcher and its worker thread (src/src/prefetch.rs) and the      *)
(* ColumnBuilder / Column store (src/src/storage.rs).                      *)
(*                                                                         *)
(* The specifications share the variables:                                 *)
(*   Spec         any sequence of get / insert calls on one HybridCache    *)
(*   SpecPools    the same, every insert with the same payload             *)
(*   SpecFresh    the same as Spec, with the history of inserted payloads  *)
(*   SpecPrefetch a Prefetcher, its worker, a submitting thread and a      *)
(*                foreground cache user, around one Column and one cache   *)
(*   FairPrefetch SpecPrefetch with every thread scheduled fairly           *)
(*   SpecStorage  ColumnBuilder::new, compress, build, decompress_parallel *)
(*                and get_value                                            *)
(***************************************************************************)
EXTENDS Integers, Sequences, FiniteSets, TLC

VARIABLES
    cache,      \* the HybridCache: [lfu, lfu_cap, lru, lru_cap, lfu_keys,
                \*                   access_stats, size]
    last,       \* the last cache call: [op, key, ret]
    calls,      \* history: key -> number of get and insert calls made on it
    inserted,   \* history (kept in SpecFresh): key -> the payload of the last
                \*   insert of the key, if any
    builder,    \* the ColumnBuilder: Some([name, data, min, max, is_compressed])
    column,     \* the built Column: Some([name, mmap, min, max, is_compressed,
                \*                          bloom_filter])
    original,   \* history: the buffer given to ColumnBuilder::new
    result,     \* what the last decompress_parallel call did: [kind, data]
    value,      \* what the last get_value call did: [idx, ret]
    queue,      \* the bounded channel: the requests sent and not yet received
    sender_alive, \* the Prefetcher (the only Sender) has not been dropped
    worker,     \* the worker thread: [pc, col_name, data]
    lock,       \* the Mutex around the cache: "free", or the thread holding it
    caller,     \* the thread calling schedule_prefetch: [pc, key]
    scheduled,  \* history: number of schedule_prefetch calls made
    accepted,   \* history: number of requests put on the queue
    fg_calls    \* history: number of cache calls of the foreground thread

\* ------------------------------------------------------------------ bounds

\* Cache keys (column names) and payloads (decompressed bytes) of the model.
Keys == {"a", "b", "c"}
Payloads == {<<1>>, <<2>>}

\* A key is accessed (get or insert) at most MaxCount times (the u64 access
\* count is far from wrapping).
MaxCount == 7

\* Caches of capacity 2 .. MaxSize are built.
MaxSize == 4

\* Column buffers hold up to MaxWords 4-byte integers, of bytes ByteVals.
MaxWords == 2
ByteVals == {0, 1}

\* In SpecPrefetch: schedule_prefetch is called at most MaxRequests times, and
\* the foreground thread calls the cache at most MaxFgCalls times.
MaxRequests == 12
MaxFgCalls == 2

\* Stand-in for decompress_parallel's CHUNK_SIZE (1024 * 1024 bytes), scaled
\* to the buffers of the model: a compressed region longer than this takes
\* the chunked path.
CHUNK_SIZE == 8

\* Stand-in for the width of usize (64 bits), scaled to the regions of the
\* model: element indices are the numbers of UsizeBits bits.
UsizeBits == 5

\* --------------------------------------------------------------- HybridCache

\* Option<T>: None is the empty tuple, Some(v) the 1-tuple.
None == <<>>
Some(v) == <<v>>

\* insert: `if entry.0 > 5`
PromotionThreshold == 5

\* access_stats: HashMap<String, (u64, Instant)>.  The records are kept as a
\* sequence ordered by their Instant, oldest first: Instants are only ever
\* compared, and every Instant::now() is later than all stored ones.
HasStats(stats, k) == \E i \in 1..Len(stats) : stats[i].key = k

CountOf(stats, k) ==
    IF HasStats(stats, k)
    THEN (CHOOSE e \in {stats[i] : i \in 1..Len(stats)} : e.key = k).count
    ELSE 0

DropKey(s, k) == SelectSeq(s, LAMBDA e : e.key # k)

\* entry(key).or_insert((0, now)); entry.0 += 1; entry.1 = now
RecordAccess(stats, k) ==
    DropKey(stats, k) \o <<[key |-> k, count |-> CountOf(stats, k) + 1]>>

\* ---- lru::LruCache<String, Arc<Vec<u8>>>: a sequence of [key, val], least
\* recently used first.
LruHas(lru, k) == \E i \in 1..Len(lru) : lru[i].key = k

LruVal(lru, k) == (CHOOSE e \in {lru[i] : i \in 1..Len(lru)} : e.key = k).val

\* LruCache::get: a hit makes the entry the most recently used.
LruGet(lru, k) ==
    IF LruHas(lru, k)
    THEN DropKey(lru, k) \o <<[key |-> k, val |-> LruVal(lru, k)]>>
    ELSE lru

\* LruCache::put: update in place, or push, evicting the least recently used
\* entry when the pool is at its capacity.
LruPut(lru, cap, k, v) ==
    IF LruHas(lru, k)
    THEN DropKey(lru, k) \o <<[key |-> k, val |-> v]>>
    ELSE IF Len(lru) >= cap
         THEN Tail(lru) \o <<[key |-> k, val |-> v]>>
         ELSE lru \o <<[key |-> k, val |-> v]>>

\* LruCache::pop_lru
LruPop(lru) == IF lru = <<>> THEN lru ELSE Tail(lru)

LruKeys(lru) == {lru[i].key : i \in 1..Len(lru)}

\* ---- lfu_cache::LfuCache<String, Arc<Vec<u8>>>: key -> [val, freq], freq
\* the pool's own use counter.
LfuKeys(lfu) == DOMAIN lfu

LfuLen(lfu) == Cardinality(DOMAIN lfu)

LfuRemove(lfu, k) == [x \in (DOMAIN lfu) \ {k} |-> lfu[x]]

\* LfuCache::get: a hit raises the entry's frequency.
LfuGet(lfu, k) ==
    IF k \in DOMAIN lfu THEN [lfu EXCEPT ![k].freq = @ + 1] ELSE lfu

\* The entries LfuCache::pop_lfu may evict: those of least frequency (which
\* one of several is the pool's internal order).
LfuVictims(lfu) ==
    {k \in DOMAIN lfu : \A j \in DOMAIN lfu : lfu[k].freq <= lfu[j].freq}

LfuPut(lfu, k, v) ==
    [x \in (DOMAIN lfu) \cup {k} |->
        IF x = k THEN [val |-> v, freq |-> 0] ELSE lfu[x]]

\* LfuCache::insert: the old entry of the key is removed (its frequency is
\* reset); a full pool evicts one least frequently used entry first (a pool
\* built with capacity 0 is unbounded).  The set of possible resulting pools.
LfuInsert(lfu, cap, k, v) ==
    LET rest == LfuRemove(lfu, k) IN
    IF cap > 0 /\ LfuLen(rest) >= cap
    THEN {LfuPut(LfuRemove(rest, victim), k, v) : victim \in LfuVictims(rest)}
    ELSE {LfuPut(rest, k, v)}

\* ---- HybridCache

\* Mutant of NewCache: each pool is built with the whole capacity.
NewCache_whole_pools(size) ==
    [lfu |-> <<>>, lfu_cap |-> size,
     lru |-> <<>>, lru_cap |-> size,
     lfu_keys |-> {}, access_stats |-> <<>>, size |-> size]

\* HybridCache::new
NewCache(size) ==
    [lfu |-> <<>>, lfu_cap |-> size \div 2,
     lru |-> <<>>, lru_cap |-> size \div 2,
     lfu_keys |-> {}, access_stats |-> <<>>, size |-> size]

\* The (count, time) key of min_by_key; a key without a record counts as
\* (0, Instant::now()).
StatRank(stats, k) ==
    IF HasStats(stats, k)
    THEN CHOOSE i \in 1..Len(stats) : stats[i].key = k
    ELSE Len(stats) + 1

StatLess(stats, j, k) ==
    \/ CountOf(stats, j) < CountOf(stats, k)
    \/ /\ CountOf(stats, j) = CountOf(stats, k)
       /\ StatRank(stats, j) < StatRank(stats, k)

\* HybridCache::least_used_key_in_lfu
least_used_key_in_lfu(c) ==
    IF c.lfu_keys = {} THEN None
    ELSE Some(CHOOSE k \in c.lfu_keys :
                \A j \in c.lfu_keys : ~StatLess(c.access_stats, j, k))

\* Mutant of rebalance_continues: the loop runs down to half the capacity.
rebalance_continues_at_half(c) ==
    LfuLen(c.lfu) + Len(c.lru) >= c.size \div 2

\* rebalance: `while self.lfu.len() + self.lru.len() > self.size`
rebalance_continues(c) == LfuLen(c.lfu) + Len(c.lru) > c.size

\* rebalance: one pass of the loop body, [cache, break].  With the frequency
\* pool within its half and the recency pool empty, pop_lru returns None and
\* the pass changes nothing.
rebalance_pass(c) ==
    IF LfuLen(c.lfu) > c.size \div 2
    THEN IF least_used_key_in_lfu(c) # None
         THEN LET key_to_remove == least_used_key_in_lfu(c)[1] IN
              [cache |-> [c EXCEPT
                             !.lfu = LfuRemove(@, key_to_remove),
                             !.lfu_keys = @ \ {key_to_remove},
                             !.access_stats = DropKey(@, key_to_remove)],
               break |-> FALSE]
         ELSE [cache |-> c, break |-> TRUE]
    ELSE IF c.lru # <<>>
         THEN [cache |-> [c EXCEPT
                             !.lru = LruPop(@),
                             !.access_stats = DropKey(@, c.lru[1].key)],
               break |-> FALSE]
         ELSE [cache |-> c, break |-> FALSE]

\* HybridCache::rebalance
RECURSIVE rebalance(_)
rebalance(c) ==
    IF rebalance_continues(c)
    THEN LET pass == rebalance_pass(c) IN
         IF pass.break THEN pass.cache ELSE rebalance(pass.cache)
    ELSE c

\* The passes rebalance makes from c, counted up to n + 1: a result above n
\* says the loop is still running after n passes.
RECURSIVE rebalance_passes(_, _)
rebalance_passes(c, n) ==
    IF ~rebalance_continues(c) THEN 0
    ELSE IF n = 0 THEN 1
    ELSE LET pass == rebalance_pass(c) IN
         IF pass.break THEN 1
         ELSE 1 + rebalance_passes(pass.cache, n - 1)

\* What HybridCache::get returns: the frequency pool is asked first.
GetResult(c, k) ==
    IF k \in LfuKeys(c.lfu) THEN Some(c.lfu[k].val)
    ELSE IF LruHas(c.lru, k) THEN Some(LruVal(c.lru, k))
    ELSE None

\* Mutant of get: the access is recorded only for a resident key.
get_resident_only(c, k) ==
    [c EXCEPT
        !.access_stats =
            IF k \in LfuKeys(c.lfu) \/ LruHas(c.lru, k)
            THEN RecordAccess(@, k) ELSE @,
        !.lfu = LfuGet(@, k),
        !.lru = IF k \in LfuKeys(c.lfu) THEN @ ELSE LruGet(@, k)]

\* HybridCache::get: the cache after the call.
get(c, k) ==
    [c EXCEPT
        !.access_stats = RecordAccess(@, k),
        !.lfu = LfuGet(@, k),
        !.lru = IF k \in LfuKeys(c.lfu) THEN @ ELSE LruGet(@, k)]

\* Mutant of insert: the pools grow without evicting and rebalance is not
\* called.
insert_no_eviction(c, k, v) ==
    LET stats == RecordAccess(c.access_stats, k) IN
    IF CountOf(stats, k) > PromotionThreshold
    THEN {[c EXCEPT
              !.access_stats = stats,
              !.lfu = LfuPut(LfuRemove(@, k), k, v),
              !.lfu_keys = @ \cup {k}]}
    ELSE {[c EXCEPT
              !.access_stats = stats,
              !.lru = DropKey(@, k) \o <<[key |-> k, val |-> v]>>]}

\* Mutant of insert: `entry.0 >= 5` for `entry.0 > 5`.
insert_ge_threshold(c, k, v) ==
    LET stats == RecordAccess(c.access_stats, k) IN
    IF CountOf(stats, k) >= PromotionThreshold
    THEN {rebalance([c EXCEPT
              !.access_stats = stats,
              !.lfu = l,
              !.lfu_keys = @ \cup {k}]) :
          l \in LfuInsert(c.lfu, c.lfu_cap, k, v)}
    ELSE {rebalance([c EXCEPT
              !.access_stats = stats,
              !.lru = LruPut(@, c.lru_cap, k, v)])}

\* Mutant of insert: the comparison reversed, `entry.0 < 5`.
insert_reversed(c, k, v) ==
    LET stats == RecordAccess(c.access_stats, k) IN
    IF CountOf(stats, k) < PromotionThreshold
    THEN {rebalance([c EXCEPT
              !.access_stats = stats,
              !.lfu = l,
              !.lfu_keys = @ \cup {k}]) :
          l \in LfuInsert(c.lfu, c.lfu_cap, k, v)}
    ELSE {rebalance([c EXCEPT
              !.access_stats = stats,
              !.lru = LruPut(@, c.lru_cap, k, v)])}

\* HybridCache::insert up to its call of rebalance: the caches that
\* rebalance may be entered with.
insert_pools(c, k, v) ==
    LET stats == RecordAccess(c.access_stats, k) IN
    IF CountOf(stats, k) > PromotionThreshold
    THEN {[c EXCEPT
              !.access_stats = stats,
              !.lfu = l,
              !.lfu_keys = @ \cup {k}] :
          l \in LfuInsert(c.lfu, c.lfu_cap, k, v)}
    ELSE {[c EXCEPT
              !.access_stats = stats,
              !.lru = LruPut(@, c.lru_cap, k, v)]}

\* HybridCache::insert: the caches the call may leave.
insert(c, k, v) == {rebalance(x) : x \in insert_pools(c, k, v)}

\* ------------------------------------------------------------- Column store

\* std::io::Result<Vec<u8>>, and a panic of the calling thread.
Ok(data) == [kind |-> "Ok", data |-> data]
Err == [kind |-> "Err", data |-> <<>>]
Panic == [kind |-> "Panic", data |-> <<>>]
NoResult == [kind |-> "None", data |-> <<>>]

\* ---- zstd.  A frame is the magic number, the blocks and an end mark; the
\* blocks are run-length pairs <<count, byte>> with count >= 1, the end mark
\* is a count of 0.  Decoding reads frames until the input ends and fails on
\* whatever is not a complete frame.
ZstdMagic == <<40, 181, 47, 253>>

RECURSIVE RunLength(_, _)
\* The length of the run of b at the head of s.
RunLength(s, b) ==
    IF s # <<>> /\ s[1] = b THEN 1 + RunLength(Tail(s), b) ELSE 0

RECURSIVE EncodeBlocks(_)
EncodeBlocks(s) ==
    IF s = <<>> THEN <<>>
    ELSE LET n == RunLength(s, s[1]) IN
         <<n, s[1]>> \o EncodeBlocks(SubSeq(s, n + 1, Len(s)))

\* zstd::encode_all
zstd_compress(data) == ZstdMagic \o EncodeBlocks(data) \o <<0>>

RECURSIVE zstd_decompress(_)
RECURSIVE DecodeBlocks(_)
\* The blocks of one frame, then the frames that follow it.
DecodeBlocks(s) ==
    IF s = <<>> THEN Err
    ELSE IF s[1] = 0 THEN zstd_decompress(Tail(s))
    ELSE IF Len(s) < 2 THEN Err
    ELSE LET rest == DecodeBlocks(SubSeq(s, 3, Len(s))) IN
         IF rest.kind = "Err" THEN Err
         ELSE Ok([i \in 1..s[1] |-> s[2]] \o rest.data)

\* zstd::decode_all
zstd_decompress(s) ==
    IF s = <<>> THEN Ok(<<>>)
    ELSE IF Len(s) < Len(ZstdMagic) \/ SubSeq(s, 1, Len(ZstdMagic)) # ZstdMagic
         THEN Err
    ELSE DecodeBlocks(SubSeq(s, Len(ZstdMagic) + 1, Len(s)))

\* ---- ColumnBuilder

I32_MAX == 2147483647
I32_MIN == -2147483647 - 1

\* i32::from_le_bytes
i32_from_le_bytes(b) ==
    b[1] + 256 * b[2] + 65536 * b[3]
      + 16777216 * (IF b[4] >= 128 THEN b[4] - 256 ELSE b[4])

\* data.chunks_exact(4), decoded: a trailing partial chunk is left out.
Values(data) ==
    [i \in 1..(Len(data) \div 4) |->
        i32_from_le_bytes(SubSeq(data, 4 * i - 3, 4 * i))]

Min2(x, y) == IF x <= y THEN x ELSE y
Max2(x, y) == IF x >= y THEN x ELSE y

RECURSIVE FoldMin(_, _)
FoldMin(vals, acc) ==
    IF vals = <<>> THEN acc ELSE FoldMin(Tail(vals), Min2(acc, vals[1]))

RECURSIVE FoldMax(_, _)
FoldMax(vals, acc) ==
    IF vals = <<>> THEN acc ELSE FoldMax(Tail(vals), Max2(acc, vals[1]))

\* ColumnBuilder::compute_stats
compute_stats(data) ==
    <<FoldMin(Values(data), I32_MAX), FoldMax(Values(data), I32_MIN)>>

\* ColumnBuilder::new
ColumnBuilder_new(name, data) ==
    [name |-> name, data |-> data,
     min |-> compute_stats(data)[1], max |-> compute_stats(data)[2],
     is_compressed |-> FALSE]

\* ColumnBuilder::compress
compress(b) ==
    IF ~b.is_compressed
    THEN [b EXCEPT !.data = zstd_compress(b.data), !.is_compressed = TRUE]
    ELSE b

\* ColumnBuilder::build (the write and the mapping succeed).  The membership
\* filter is kept as the set of values given to bloom.set.
build(b) ==
    [name |-> b.name, mmap |-> b.data, min |-> b.min, max |-> b.max,
     is_compressed |-> b.is_compressed,
     bloom_filter |-> {Values(b.data)[i] : i \in 1..(Len(b.data) \div 4)}]

\* ---- Column

\* compressed_data.chunks(CHUNK_SIZE): the last window may be shorter.
Chunks(s, n) ==
    [i \in 1..((Len(s) + n - 1) \div n) |->
        SubSeq(s, (i - 1) * n + 1, Min2(i * n, Len(s)))]

RECURSIVE Concat(_)
Concat(ss) == IF ss = <<>> THEN <<>> ELSE ss[1] \o Concat(Tail(ss))

\* Mutant of decompress_parallel: the chunk results are concatenated whether
\* or not a chunk failed (the failure is dropped instead of unwrapped).
decompress_parallel_lenient(col) ==
    IF ~col.is_compressed THEN Ok(col.mmap)
    ELSE IF Len(col.mmap) <= CHUNK_SIZE THEN zstd_decompress(col.mmap)
    ELSE LET chunks == Chunks(col.mmap, CHUNK_SIZE)
             decompressed_chunks ==
                 [i \in 1..Len(chunks) |-> zstd_decompress(chunks[i])]
         IN  Ok(Concat([i \in 1..Len(chunks) |-> decompressed_chunks[i].data]))

\* Column::decompress_parallel.  On the chunked path each window is
\* decompressed and unwrapped inside the parallel iterator: a failed window
\* panics, and the panic reaches the calling thread.
decompress_parallel(col) ==
    IF ~col.is_compressed THEN Ok(col.mmap)
    ELSE IF Len(col.mmap) <= CHUNK_SIZE THEN zstd_decompress(col.mmap)
    ELSE LET chunks == Chunks(col.mmap, CHUNK_SIZE)
             decompressed_chunks ==
                 [i \in 1..Len(chunks) |-> zstd_decompress(chunks[i])]
         IN  IF \E i \in 1..Len(chunks) : decompressed_chunks[i].kind = "Err"
             THEN Panic
             ELSE Ok(Concat([i \in 1..Len(chunks) |->
                                decompressed_chunks[i].data]))

\* Option<i32>, and a panic of the calling thread.
SomeValue(v) == [kind |-> "Some", val |-> v]
NoneValue == [kind |-> "None", val |-> 0]
PanicValue == [kind |-> "Panic", val |-> 0]

\* usize::MAX
USIZE_MAX == 2 ^ UsizeBits - 1

\* Column::get_value built without overflow checks (release profile):
\* `idx * 4` and `offset + 4` wrap around; slicing with a start beyond the end
\* panics.
get_value_wrapping(col, idx) ==
    LET offset == (idx * 4) % (USIZE_MAX + 1)
        end == (offset + 4) % (USIZE_MAX + 1)
    IN  IF end > Len(col.mmap) THEN NoneValue
        ELSE IF offset > end THEN PanicValue
        ELSE SomeValue(i32_from_le_bytes(SubSeq(col.mmap, offset + 1, end)))

\* Column::get_value built with overflow checks (debug profile): an
\* overflowing `idx * 4` or `offset + 4` panics.
get_value_checked(col, idx) ==
    IF idx * 4 > USIZE_MAX \/ idx * 4 + 4 > USIZE_MAX THEN PanicValue
    ELSE IF idx * 4 + 4 > Len(col.mmap) THEN NoneValue
    ELSE SomeValue(i32_from_le_bytes(
                       SubSeq(col.mmap, idx * 4 + 1, idx * 4 + 4)))

\* Column::get_value: what the call may do, over the builds of the crate.
get_value(col, idx) ==
    {get_value_wrapping(col, idx), get_value_checked(col, idx)}

\* ------------------------------------------------------------ specification

cacheVars == <<cache, last, calls, inserted>>
storageVars == <<builder, column, original, result, value>>
prefetchVars ==
    <<queue, sender_alive, worker, lock, caller, scheduled, accepted, fg_calls>>
vars == <<cacheVars, storageVars, prefetchVars>>

NoCall == [op |-> "none", by |-> "", key |-> "", ret |-> None]

\* get_value has not been called.
NoValue == [idx |-> 0, ret |-> [kind |-> "NoCall", val |-> 0]]

\* No column is being built.
NoStorage ==
    /\ builder = None
    /\ column = None
    /\ original = <<>>
    /\ result = NoResult
    /\ value = NoValue

\* No Prefetcher exists.
NoPrefetcher ==
    /\ queue = <<>>
    /\ sender_alive = FALSE
    /\ worker = [pc |-> "none", col_name |-> "", data |-> <<>>]
    /\ lock = "free"
    /\ caller = [pc |-> "idle", key |-> ""]
    /\ scheduled = 0
    /\ accepted = 0
    /\ fg_calls = 0

Init ==
    /\ cache \in {NewCache(n) : n \in 2..MaxSize}
    /\ last = NoCall
    /\ calls = [k \in Keys |-> 0]
    /\ inserted = [k \in Keys |-> None]
    /\ NoStorage
    /\ NoPrefetcher

\* A thread holding the lock calls cache.get(k).
Get(k) ==
    /\ calls[k] < MaxCount
    /\ cache' = get(cache, k)
    /\ last' = [op |-> "get", by |-> "fg", key |-> k, ret |-> GetResult(cache, k)]
    /\ calls' = [calls EXCEPT ![k] = @ + 1]
    /\ UNCHANGED <<inserted, storageVars, prefetchVars>>

\* A thread holding the lock calls cache.insert(k, v).
Insert(k, v) ==
    /\ calls[k] < MaxCount
    /\ cache' \in insert(cache, k, v)
    /\ last' = [op |-> "insert", by |-> "fg", key |-> k, ret |-> None]
    /\ calls' = [calls EXCEPT ![k] = @ + 1]
    /\ UNCHANGED <<inserted, storageVars, prefetchVars>>

Next ==
    \/ \E k \in Keys : Get(k)
    \/ \E k \in Keys, v \in Payloads : Insert(k, v)

Spec == Init /\ [][Next]_vars

\* ---- SpecPools: the same calls with a single payload.  Which pool a key is
\* in, what is evicted and what rebalance does never depend on the payloads.
PoolsNext ==
    \/ \E k \in Keys : Get(k)
    \/ \E k \in Keys : Insert(k, <<1>>)

SpecPools == Init /\ [][PoolsNext]_vars

\* ---- SpecFresh: the calls of Spec, with the payload of the last insert of
\* each key remembered.

\* cache.insert(k, v), remembered
TrackedInsert(k, v) ==
    /\ calls[k] < MaxCount
    /\ cache' \in insert(cache, k, v)
    /\ last' = [op |-> "insert", by |-> "fg", key |-> k, ret |-> None]
    /\ calls' = [calls EXCEPT ![k] = @ + 1]
    /\ inserted' = [inserted EXCEPT ![k] = Some(v)]
    /\ UNCHANGED <<storageVars, prefetchVars>>

FreshNext ==
    \/ \E k \in Keys : Get(k)
    \/ \E k \in Keys, v \in Payloads : TrackedInsert(k, v)

SpecFresh == Init /\ [][FreshNext]_vars

\* ---- SpecStorage: one column is built from a buffer and decompressed.

\* The buffers given to ColumnBuilder::new: whole 4-byte integers.
RECURSIVE SeqsOfLen(_, _)
SeqsOfLen(S, n) ==
    IF n = 0 THEN {<<>>}
    ELSE {Append(s, x) : s \in SeqsOfLen(S, n - 1), x \in S}

Buffers == UNION {SeqsOfLen(ByteVals, 4 * w) : w \in 0..MaxWords}

\* The cache is not used.
NoCache ==
    /\ cache = NewCache(2)
    /\ last = NoCall
    /\ calls = [k \in Keys |-> 0]
    /\ inserted = [k \in Keys |-> None]

\* ColumnBuilder::new(name, data) has returned.
StorageInit ==
    /\ NoCache
    /\ NoPrefetcher
    /\ \E data \in Buffers :
          /\ builder = Some(ColumnBuilder_new("col", data))
          /\ original = data
    /\ column = None
    /\ result = NoResult
    /\ value = NoValue

\* builder.compress()
Compress ==
    /\ builder # None
    /\ builder' = Some(compress(builder[1]))
    /\ UNCHANGED <<column, original, result, value, cacheVars, prefetchVars>>

\* builder.build(path): the builder is consumed.
Build ==
    /\ builder # None
    /\ column' = Some(build(builder[1]))
    /\ builder' = None
    /\ UNCHANGED <<original, result, value, cacheVars, prefetchVars>>

\* column.decompress_parallel()
Decompress ==
    /\ column # None
    /\ result' = decompress_parallel(column[1])
    /\ UNCHANGED <<builder, column, original, value, cacheVars, prefetchVars>>

\* The element indices given to get_value: every usize.
Indices == 0..USIZE_MAX

\* column.get_value(idx)
GetValue(idx) ==
    /\ column # None
    /\ value' \in {[idx |-> idx, ret |-> r] : r \in get_value(column[1], idx)}
    /\ UNCHANGED <<builder, column, original, result, cacheVars, prefetchVars>>

StorageNext ==
    \/ Compress
    \/ Build
    \/ Decompress
    \/ \E idx \in Indices : GetValue(idx)

SpecStorage == StorageInit /\ [][StorageNext]_vars

\* ---- SpecPrefetch: a Prefetcher and its worker around one Column and one
\* cache behind a Mutex, a thread that submits requests and then drops the
\* Prefetcher, and a foreground thread that uses the cache.

\* bounded::<String>(10)
QueueCap == 10

\* The column names requested, and the keys the foreground thread uses.
PrefetchKeys == {"a"}
FgKeys == {"a", "b"}

\* The Columns a Prefetcher is given: built from a buffer as it is; built
\* compressed, into a region within CHUNK_SIZE or a longer one; and a
\* compressed Column whose file is damaged (its first byte overwritten).
PrefetchColumns ==
    {build(ColumnBuilder_new("a", <<1, 1, 1, 1>>)),
     build(compress(ColumnBuilder_new("a", <<1, 1, 1, 1>>))),
     build(compress(ColumnBuilder_new("a", <<1, 0, 1, 0>>))),
     [build(compress(ColumnBuilder_new("a", <<1, 1, 1, 1>>)))
        EXCEPT !.mmap[1] = 0]}

\* Prefetcher::new has returned: the channel is empty and the worker thread
\* waits in receiver.recv().
PrefetchInit ==
    /\ cache = NewCache(MaxSize)
    /\ last = NoCall
    /\ calls = [k \in Keys |-> 0]
    /\ inserted = [k \in Keys |-> None]
    /\ builder = None
    /\ column \in {Some(c) : c \in PrefetchColumns}
    /\ original = <<>>
    /\ result = NoResult
    /\ value = NoValue
    /\ queue = <<>>
    /\ sender_alive = TRUE
    /\ worker = [pc |-> "recv", col_name |-> "", data |-> <<>>]
    /\ lock = "free"
    /\ caller = [pc |-> "idle", key |-> ""]
    /\ scheduled = 0
    /\ accepted = 0
    /\ fg_calls = 0

\* The worker thread is gone and its Receiver dropped: the channel is
\* disconnected.
Disconnected == worker.pc \in {"panicked", "exited"}

\* Mutant of send_blocks: the send gives up on a full channel (try_send).
send_never_blocks(q) == FALSE

\* Sender::send on a connected channel waits while the channel is full.
send_blocks(q) == Len(q) >= QueueCap

\* Prefetcher::schedule_prefetch(column_name): `let _ = self.sender.send(..)`.
\* On a disconnected channel send returns an error, which is ignored; on a
\* full channel the call waits for room.
Schedule(k) ==
    /\ caller.pc = "idle"
    /\ sender_alive
    /\ scheduled < MaxRequests
    /\ scheduled' = scheduled + 1
    /\ IF Disconnected
       THEN UNCHANGED <<queue, caller, accepted>>
       ELSE IF send_blocks(queue)
            THEN /\ caller' = [pc |-> "blocked", key |-> k]
                 /\ UNCHANGED <<queue, accepted>>
            ELSE /\ queue' = Append(queue, k)
                 /\ accepted' = accepted + 1
                 /\ UNCHANGED caller
    /\ UNCHANGED <<cacheVars, storageVars, sender_alive, worker, lock, fg_calls>>

\* A send that waited finds room: the request is queued and
\* schedule_prefetch returns.
SendUnblocked ==
    /\ caller.pc = "blocked"
    /\ ~Disconnected
    /\ ~send_blocks(queue)
    /\ queue' = Append(queue, caller.key)
    /\ accepted' = accepted + 1
    /\ caller' = [pc |-> "idle", key |-> ""]
    /\ UNCHANGED <<cacheVars, storageVars, sender_alive, worker, lock,
                   scheduled, fg_calls>>

\* A send that waited is woken by the disconnection: it returns an error.
SendDisconnected ==
    /\ caller.pc = "blocked"
    /\ Disconnected
    /\ caller' = [pc |-> "idle", key |-> ""]
    /\ UNCHANGED <<cacheVars, storageVars, queue, sender_alive, worker, lock,
                   scheduled, accepted, fg_calls>>

\* The Prefetcher is dropped, and with it the only Sender.
DropPrefetcher ==
    /\ caller.pc = "idle"
    /\ sender_alive
    /\ sender_alive' = FALSE
    /\ UNCHANGED <<cacheVars, storageVars, queue, worker, lock, caller,
                   scheduled, accepted, fg_calls>>

\* `while let Ok(col_name) = receiver.recv()`: a request is received.
WorkerRecv ==
    /\ worker.pc = "recv"
    /\ queue # <<>>
    /\ worker' = [pc |-> "lock_get", col_name |-> Head(queue), data |-> <<>>]
    /\ queue' = Tail(queue)
    /\ UNCHANGED <<cacheVars, storageVars, sender_alive, lock, caller,
                   scheduled, accepted, fg_calls>>

\* recv returns an error on an empty channel without senders: the loop and
\* the thread end.
WorkerExit ==
    /\ worker.pc = "recv"
    /\ queue = <<>>
    /\ ~sender_alive
    /\ worker' = [worker EXCEPT !.pc = "exited"]
    /\ UNCHANGED <<cacheVars, storageVars, queue, sender_alive, lock, caller,
                   scheduled, accepted, fg_calls>>

\* cache.lock().unwrap() of the `if` condition
WorkerLockGet ==
    /\ worker.pc = "lock_get"
    /\ lock = "free"
    /\ lock' = "worker"
    /\ worker' = [worker EXCEPT !.pc = "get"]
    /\ UNCHANGED <<cacheVars, storageVars, queue, sender_alive, caller,
                   scheduled, accepted, fg_calls>>

\* Mutant of after_get: the result of get is ignored.
after_get_always_miss(ret) == "decompress"

\* `if ....get(&col_name).is_none() { .. }`: where the worker goes on.
after_get(ret) == IF ret = None THEN "decompress" ELSE "recv"

\* Mutant of WorkerGet: the guard is kept through the body of the `if` (as if
\* bound with `let`), so the lock is still held when decompression starts.
WorkerGet_keeps_guard ==
    /\ worker.pc = "get"
    /\ cache' = get(cache, worker.col_name)
    /\ last' = [op |-> "get", by |-> "worker", key |-> worker.col_name,
                ret |-> GetResult(cache, worker.col_name)]
    /\ calls' = [calls EXCEPT ![worker.col_name] = @ + 1]
    /\ UNCHANGED inserted
    /\ lock' = IF GetResult(cache, worker.col_name) = None
               THEN "worker" ELSE "free"
    /\ worker' = [worker EXCEPT
                    !.pc = IF GetResult(cache, worker.col_name) = None
                           THEN "decompress" ELSE "recv"]
    /\ UNCHANGED <<storageVars, queue, sender_alive, caller, scheduled,
                   accepted, fg_calls>>

\* .get(&col_name).is_none(): the guard is a temporary of the condition and
\* is dropped when the condition has been evaluated.
WorkerGet ==
    /\ worker.pc = "get"
    /\ cache' = get(cache, worker.col_name)
    /\ last' = [op |-> "get", by |-> "worker", key |-> worker.col_name,
                ret |-> GetResult(cache, worker.col_name)]
    /\ calls' = [calls EXCEPT ![worker.col_name] = @ + 1]
    /\ UNCHANGED inserted
    /\ lock' = "free"
    /\ worker' = [worker EXCEPT
                    !.pc = after_get(GetResult(cache, worker.col_name))]
    /\ UNCHANGED <<storageVars, queue, sender_alive, caller, scheduled,
                   accepted, fg_calls>>

\* Mutant of WorkerDecompress: a failed decompression yields an empty payload
\* that is inserted all the same (`.unwrap_or_default()`).
WorkerDecompress_default_on_error ==
    /\ worker.pc = "decompress"
    /\ result' = decompress_parallel(column[1])
    /\ worker' = [worker EXCEPT
                    !.pc = IF result'.kind = "Panic" THEN "panicked"
                           ELSE "lock_insert",
                    !.data = result'.data]
    /\ UNCHANGED <<cacheVars, builder, column, original, value, queue,
                   sender_alive, lock, caller, scheduled, accepted, fg_calls>>

\* `if let Ok(data) = column.decompress_parallel() { .. }`: an error is
\* dropped, a panic ends the thread.
WorkerDecompress ==
    /\ worker.pc = "decompress"
    /\ result' = decompress_parallel(column[1])
    /\ worker' = [worker EXCEPT
                    !.pc = IF result'.kind = "Ok" THEN "lock_insert"
                           ELSE IF result'.kind = "Err" THEN "recv"
                           ELSE "panicked",
                    !.data = result'.data]
    /\ UNCHANGED <<cacheVars, builder, column, original, value, queue,
                   sender_alive, lock, caller, scheduled, accepted, fg_calls>>

\* cache.lock().unwrap() of the insert statement
WorkerLockInsert ==
    /\ worker.pc = "lock_insert"
    /\ lock = "free"
    /\ lock' = "worker"
    /\ worker' = [worker EXCEPT !.pc = "insert"]
    /\ UNCHANGED <<cacheVars, storageVars, queue, sender_alive, caller,
                   scheduled, accepted, fg_calls>>

\* .insert(col_name, Arc::new(data)); the guard is dropped with the statement.
WorkerInsert ==
    /\ worker.pc = "insert"
    /\ cache' \in insert(cache, worker.col_name, worker.data)
    /\ last' = [op |-> "insert", by |-> "worker", key |-> worker.col_name,
                ret |-> None]
    /\ calls' = [calls EXCEPT ![worker.col_name] = @ + 1]
    /\ UNCHANGED inserted
    /\ lock' = "free"
    /\ worker' = [worker EXCEPT !.pc = "recv", !.data = <<>>]
    /\ UNCHANGED <<storageVars, queue, sender_alive, caller, scheduled,
                   accepted, fg_calls>>

\* The foreground thread takes the lock.
FgLock ==
    /\ lock = "free"
    /\ fg_calls < MaxFgCalls
    /\ lock' = "fg"
    /\ UNCHANGED <<cacheVars, storageVars, queue, sender_alive, worker, caller,
                   scheduled, accepted, fg_calls>>

\* cache.lock().unwrap().get(k) by the foreground thread
FgGet(k) ==
    /\ lock = "fg"
    /\ cache' = get(cache, k)
    /\ last' = [op |-> "get", by |-> "fg", key |-> k, ret |-> GetResult(cache, k)]
    /\ calls' = [calls EXCEPT ![k] = @ + 1]
    /\ UNCHANGED inserted
    /\ lock' = "free"
    /\ fg_calls' = fg_calls + 1
    /\ UNCHANGED <<storageVars, queue, sender_alive, worker, caller, scheduled,
                   accepted>>

\* cache.lock().unwrap().insert(k, v) by the foreground thread
FgInsert(k, v) ==
    /\ lock = "fg"
    /\ cache' \in insert(cache, k, v)
    /\ last' = [op |-> "insert", by |-> "fg", key |-> k, ret |-> None]
    /\ calls' = [calls EXCEPT ![k] = @ + 1]
    /\ UNCHANGED inserted
    /\ lock' = "free"
    /\ fg_calls' = fg_calls + 1
    /\ UNCHANGED <<storageVars, queue, sender_alive, worker, caller, scheduled,
                   accepted>>

WorkerNext ==
    \/ WorkerRecv
    \/ WorkerExit
    \/ WorkerLockGet
    \/ WorkerGet
    \/ WorkerDecompress
    \/ WorkerLockInsert
    \/ WorkerInsert

CallerNext ==
    \/ \E k \in PrefetchKeys : Schedule(k)
    \/ SendUnblocked
    \/ SendDisconnected
    \/ DropPrefetcher

FgNext ==
    \/ FgLock
    \/ \E k \in FgKeys : FgGet(k)
    \/ \E k \in FgKeys, v \in Payloads : FgInsert(k, v)

PrefetchNext == WorkerNext \/ CallerNext \/ FgNext

SpecPrefetch == PrefetchInit /\ [][PrefetchNext]_vars

\* The scheduler runs every thread that can take a step: the worker, a
\* sender that has room again, and the foreground thread inside its call.
FairPrefetch ==
    /\ SpecPrefetch
    /\ WF_vars(WorkerNext)
    /\ WF_vars(SendUnblocked \/ SendDisconnected)
    /\ WF_vars((\E k \in FgKeys : FgGet(k))
                 \/ (\E k \in FgKeys, v \in Payloads : FgInsert(k, v)))

\* ------------------------------------------------------- claims on the cache

\* The keys resident in the cache: those of either pool.
Resident(c) == LfuKeys(c.lfu) \cup LruKeys(c.lru)

\* C1: no key is resident in the frequency pool and in the recency pool at
\* the same time (a promoted key is moved, not copied).
C1_PoolExclusivity == LfuKeys(cache.lfu) \cap LruKeys(cache.lru) = {}

\* C2: the entries of the frequency pool plus those of the recency pool never
\* exceed the capacity the cache was created with.
C2_CapacityInvariant == LfuLen(cache.lfu) + Len(cache.lru) <= cache.size

\* C2 witness: an insert into a cache of capacity 4 whose pools are both full
\* left a key that was inserted earlier resident nowhere.
C2_Witness ==
    /\ last.op = "insert"
    /\ cache.size = 4
    /\ LfuLen(cache.lfu) + Len(cache.lru) = cache.size
    /\ \E k \in Keys : calls[k] > 0 /\ k \notin Resident(cache)

\* C4: right after insert(k, v), a key called (get or insert) more than 5
\* times is in the frequency pool, and a key called at most 5 times is in the
\* recency pool and not in the frequency pool.
C4_PromotionThreshold ==
    last.op = "insert" =>
        /\ calls[last.key] > 5 => last.key \in LfuKeys(cache.lfu)
        /\ calls[last.key] <= 5 =>
              /\ last.key \in LruKeys(cache.lru)
              /\ last.key \notin LfuKeys(cache.lfu)

\* C4 witness: the sixth call on a key is an insert, which leaves it in the
\* frequency pool, while another key inserted at its fifth call is in the
\* recency pool.
C4_Witness ==
    /\ last.op = "insert"
    /\ calls[last.key] = 6
    /\ last.key \in LfuKeys(cache.lfu)
    /\ \E j \in Keys \ {last.key} :
          calls[j] = 5 /\ j \in LruKeys(cache.lru) /\ j \notin LfuKeys(cache.lfu)

\* C5: a key h of the frequency pool with more than 5 calls stays in the
\* frequency pool, and get(h) finds a payload, across every insert of another
\* key whose count stays at most 5 (and across every get).
C5_FrequencyStickiness ==
    [][\A h \in Keys :
         (/\ h \in LfuKeys(cache.lfu)
          /\ calls[h] > 5
          /\ last'.key # h
          /\ last'.op = "insert" => calls'[last'.key] <= 5)
         => (h \in LfuKeys(cache'.lfu) /\ GetResult(cache', h) # None)]_vars

\* C5 witness: with h in the frequency pool, a low-count key was inserted
\* into a full recency pool and displaced another low-count key; h is still
\* there.
C5_Witness ==
    \E h \in Keys :
        /\ h \in LfuKeys(cache.lfu)
        /\ calls[h] > 5
        /\ last.op = "insert"
        /\ last.key # h
        /\ calls[last.key] <= 5
        /\ Len(cache.lru) = cache.lru_cap
        /\ \E j \in Keys \ {h} : calls[j] > 0 /\ j \notin Resident(cache)

\* C6: get(k) raises k's access count by exactly 1 (to 1 for an unknown key),
\* returns a payload iff k is resident in one of the pools, and leaves the
\* keys resident in each pool as they were.
C6_GetFrame ==
    [][last'.op = "get" /\ calls' # calls =>
         /\ CountOf(cache'.access_stats, last'.key)
              = CountOf(cache.access_stats, last'.key) + 1
         /\ last'.ret # None <=> last'.key \in Resident(cache)
         /\ LfuKeys(cache'.lfu) = LfuKeys(cache.lfu)
         /\ LruKeys(cache'.lru) = LruKeys(cache.lru)]_vars

\* C6 witness: a get of a key that was never inserted returned nothing and
\* left it with one recorded access.
C6_Witness ==
    /\ last.op = "get"
    /\ last.ret = None
    /\ calls[last.key] = 1
    /\ CountOf(cache.access_stats, last.key) = 1
    /\ Resident(cache) # {}

\* C13: a key that an insert makes leave the frequency pool or the recency
\* pool (by rebalancing or by the pool's own capacity bound) has no access
\* record when that insert returns.
C13_PurgeOnEviction ==
    [][last'.op = "insert" /\ calls' # calls =>
         \A k \in Keys :
            (\/ k \in LfuKeys(cache.lfu) \ LfuKeys(cache'.lfu)
             \/ k \in LruKeys(cache.lru) \ LruKeys(cache'.lru))
            => ~HasStats(cache'.access_stats, k)]_vars

\* C14: a key that an insert evicts from the frequency pool is the one whose
\* access record (count, then time of last access) is the lowest among the
\* keys that were resident in the frequency pool.
C14_EvictionOrder ==
    [][last'.op = "insert" /\ calls' # calls =>
         \A k \in LfuKeys(cache.lfu) \ LfuKeys(cache'.lfu) :
            \A j \in LfuKeys(cache.lfu) :
                ~StatLess(cache.access_stats, j, k)]_vars

\* Every pass of rebalance either breaks, or takes a key out of lfu_keys, or
\* pops the recency pool: a loop that ends makes at most this many passes.
RebalanceFuel(c) == Cardinality(c.lfu_keys) + Len(c.lru) + 1

\* C18: whatever key is inserted next (the payload plays no part), the
\* rebalance loop at the end of the insert terminates: from the cache it is
\* entered with, it stops within the number of passes its pools allow (it
\* does not keep running on an empty recency pool or on a frequency pool
\* without an evictable key).
C18_RebalanceTermination ==
    \A k \in Keys :
        \A x \in insert_pools(cache, k, <<>>) :
            rebalance_passes(x, RebalanceFuel(x)) <= RebalanceFuel(x)

\* C18 witness: an insert into a cache of capacity 2 has run rebalance with
\* both pools full, the total at the loop's limit.
C18_Witness ==
    /\ last.op = "insert"
    /\ cache.size = 2
    /\ LfuLen(cache.lfu) = 1
    /\ Len(cache.lru) = 1
    /\ LfuLen(cache.lfu) + Len(cache.lru) = cache.size

\* C19: each pool holds at most floor(size / 2) entries, and whatever key is
\* inserted next, the loop condition of rebalance is false when rebalance is
\* entered (so its eviction branches are never run).
C19_PerPoolBound ==
    /\ LfuLen(cache.lfu) <= cache.size \div 2
    /\ Len(cache.lru) <= cache.size \div 2
    /\ \A k \in Keys :
          \A x \in insert_pools(cache, k, <<>>) : ~rebalance_continues(x)

\* C19 witness: in a cache of capacity 3 both pools hold floor(3 / 2) = 1
\* entry after an insert that displaced an earlier key.
C19_Witness ==
    /\ last.op = "insert"
    /\ cache.size = 3
    /\ LfuLen(cache.lfu) = 1
    /\ Len(cache.lru) = 1
    /\ \E k \in Keys : calls[k] > 0 /\ k \notin Resident(cache)

\* C20: whenever get(k) returns a payload, it is the payload given to the
\* most recent insert(k, ..): never that of an older insert of k.
C20_ReadFreshness ==
    (last.op = "get" /\ last.ret # None) => last.ret = inserted[last.key]

\* --------------------------------------------------- claims on the Prefetcher

\* C3: schedule_prefetch never waits: with the queue full the request is
\* dropped and the calling thread is not blocked.
C3_NonBlockingSubmission == caller.pc # "blocked"

\* C7: under fair scheduling, whenever requests are queued the worker
\* eventually receives the next one (so every accepted request is received in
\* its turn, whatever the earlier decompressions did), and a successful
\* decompression is followed by the insert that makes the key resident.
C7_EventualExecution ==
    /\ (queue # <<>>) ~> (worker.pc = "lock_get")
    /\ (worker.pc = "lock_insert") ~>
          (/\ worker.pc = "recv"
           /\ last.op = "insert"
           /\ last.by = "worker"
           /\ last.key \in Resident(cache))

\* The payloads stored in the two pools.
StoredPayloads(c) ==
    <<[k \in LfuKeys(c.lfu) |-> c.lfu[k].val],
      {<<c.lru[i].key, c.lru[i].val>> : i \in 1..Len(c.lru)}>>

\* C8: when the worker's get finds the requested key resident, the worker
\* goes back to waiting for requests (no decompression is started, no insert
\* follows), and the resident keys and the stored payloads are unchanged.
C8_PrefetchIdempotence ==
    [][(/\ worker.pc = "get"
        /\ worker'.pc # "get"
        /\ worker.col_name \in Resident(cache))
       => /\ worker'.pc = "recv"
          /\ result' = result
          /\ Resident(cache') = Resident(cache)
          /\ StoredPayloads(cache') = StoredPayloads(cache)]_vars

\* C8 witness: the worker has processed a request whose key was resident and
\* waits for the next one; the payload it had inserted earlier is still the
\* one stored.
C8_Witness ==
    /\ worker.pc = "recv"
    /\ last.op = "get"
    /\ last.by = "worker"
    /\ last.ret # None
    /\ result.kind = "Ok"
    /\ GetResult(cache, last.key) = Some(result.data)

\* C15: the worker holds the cache mutex only inside its get and, separately,
\* inside its insert; it never holds it while decompress_parallel is pending
\* or running, so the foreground thread is not kept from the lock by a
\* decompression.
C15_LockScope ==
    /\ lock = "worker" => worker.pc \in {"get", "insert"}
    /\ worker.pc = "decompress" => lock # "worker"

\* C15 witness: the foreground thread holds the lock while the worker is in
\* decompress_parallel.
C15_Witness == worker.pc = "decompress" /\ lock = "fg"


\* C16: when the decompression started for a request fails, the worker makes
\* no insert for that request: the cache is left as it was and the worker
\* goes back to waiting (or its thread ends); a payload on its way into the
\* cache is always the data of a successful decompression.
C16_FailedPrefetch ==
    [][/\ (/\ worker.pc = "decompress"
           /\ worker'.pc # "decompress"
           /\ result'.kind # "Ok")
          => (worker'.pc \in {"recv", "panicked"} /\ cache' = cache)
       /\ worker'.pc \in {"lock_insert", "insert"}
          => (result'.kind = "Ok" /\ worker'.data = result'.data)]_vars

\* C16 witness: a decompression has failed with an error; the worker waits
\* for the next request and the requested key is resident in neither pool.
C16_Witness ==
    /\ worker.pc = "recv"
    /\ result.kind = "Err"
    /\ last.op = "get"
    /\ last.by = "worker"
    /\ last.ret = None
    /\ last.key \notin Resident(cache)

\* C17: the worker thread ends only after the Prefetcher (the only sender)
\* has been dropped and every queued request has been received; while the
\* sender is alive the worker only waits for the next request.
C17_WorkerTermination == Disconnected => (~sender_alive /\ queue = <<>>)

\* ------------------------------------------------- claims on the Column store

\* C9: decompress_parallel never panics the calling thread: a failed chunk
\* gives an error result on the single-shot and on the chunked path.
C9_NoPanic == result.kind # "Panic"

\* C10: ColumnBuilder::new(name, B), optionally compress, then build and
\* decompress_parallel returns exactly B, whatever the size of the region.
C10_RoundTrip == result.kind # "None" => result = Ok(original)

\* C11: the membership filter of a built Column was given every 4-byte
\* little-endian integer of the buffer passed to ColumnBuilder::new, whether
\* or not compress() was called before build.  (A value that was never given
\* to bloom.set is found only by a false positive, which the filter's random
\* hash keys do not promise.)
C11_FilterSource ==
    column # None =>
        \A i \in 1..Len(Values(original)) :
            Values(original)[i] \in column[1].bloom_filter

\* C12: get_value(i) returns the integer at bytes [i*4, i*4+4) of the mapped
\* region when that range lies within the region, and absence for every other
\* index i of the machine word, however large: it neither wraps around to a
\* valid offset nor panics.
C12_IndexedAccessBounds ==
    value.ret.kind # "NoCall" =>
        LET mmap == column[1].mmap
            i == value.idx
        IN  IF i * 4 + 4 <= Len(mmap)
            THEN value.ret =
                   SomeValue(i32_from_le_bytes(SubSeq(mmap, i * 4 + 1, i * 4 + 4)))
            ELSE value.ret = NoneValue

====
